---- MODULE Spec2Model ----
(***************************************************************************)
(* Model of the cdk-ffi binding layer (src/src/lib.rs): the FFIWallet       *)
(* handle, its constructors, its blocking operations over the asynchronous *)
(* wallet engine, the error normalisation and the record/enum conversions. *)
(*                                                                         *)
(* The wallet engine (cdk), the store (cdk_sqlite), tokio and bip39 are    *)
(* external: an engine call is an event with a nondeterministic outcome,   *)
(* tokio's Runtime::block_on drives a future on the calling thread until   *)
(* it completes, and bip39 is a word-count/word-list/checksum check.       *)
(***************************************************************************)
EXTENDS Integers, Sequences, FiniteSets, TLC

VARIABLES
    wallets,    \* handle slot -> the FFIWallet behind it (inner wallet's store, runtime)
    storeRefs,  \* store -> number of engine wallets holding a clone of its Arc
    rtCount,    \* number of tokio runtimes created so far
    unit,       \* calling thread -> the unit of work it is blocked in
    inflight,   \* engine calls begun and not yet completed
    preps,      \* history: the PreparedSends the engine has returned, in order
    last,       \* the return the step just taken made to a caller, if it made one
    ncalls,     \* calling thread -> number of public calls it has made
    cin,        \* conversion under test: its input and the build's pointer width
    cout        \* conversion under test: its output

vars == <<wallets, storeRefs, rtCount, unit, inflight, preps, last, ncalls,
          cin, cout>>

(***************************************************************************)
(* Bounds of the model.                                                    *)
(***************************************************************************)
NThreads == 2
MaxWallets == 2
NStores == 1
MaxOps == 2
MaxEntropy == 1
MaxStrLen == 4
MaxHalf == 1

Threads == 1..NThreads
Handles == 1..MaxWallets
Stores == 1..NStores

(***************************************************************************)
(* Option<T>: None is the empty tuple, Some(x) the one-element tuple.      *)
(***************************************************************************)
None == <<>>
Some(x) == <<x>>
IsSome(o) == Len(o) = 1
Unwrap(o) == o[1]
OptionOf(S) == {None} \cup {Some(x) : x \in S}

(***************************************************************************)
(* FFIError and Result<T>.  A message is the tuple of the pieces that      *)
(* format! joins.                                                          *)
(***************************************************************************)
ErrorKinds == {"WalletError", "InvalidInput", "NetworkError", "InternalError"}

Err(kind, msg) == [ok |-> FALSE, kind |-> kind, msg |-> msg, val |-> <<>>]
Ok(v) == [ok |-> TRUE, kind |-> "Ok", msg |-> <<>>, val |-> v]
Pending == [ok |-> FALSE, kind |-> "Pending", msg |-> <<>>, val |-> <<>>]

\* The texts the engine's and the libraries' errors render to.
ErrorTexts == {"e1", "e2"}

FromCdkErrorAsNetwork(e) == Err("NetworkError", <<e>>)
FromCdkError(e) == Err("WalletError", <<e>>)

FromNut00Error(e) == Err("WalletError", <<e>>)

FromDatabaseError(e) == Err("WalletError", <<e>>)

FromSqliteError(e) == Err("WalletError", <<e>>)

(***************************************************************************)
(* bip39, in miniature.  A phrase is the sequence of its words (the text   *)
(* joins them with spaces and the parser splits on them).  The word list   *)
(* has two words, so a word carries one bit; a phrase of n words is        *)
(* n - n/3 bits of entropy followed by n/3 bits of checksum, as in BIP39.  *)
(***************************************************************************)
Wordlist == <<"abandon", "ability">>
Radix == Len(Wordlist)
WordCount == 12
ValidWordCounts == {12, 15, 18, 21, 24}

RECURSIVE Pow(_, _)
Pow(b, k) == IF k = 0 THEN 1 ELSE b * Pow(b, k - 1)

\* The k digits of n, most significant first.
Digits(n, k) == [i \in 1..k |-> (n \div Pow(Radix, k - i)) % Radix]

RECURSIVE Value(_)
Value(ds) == IF Len(ds) = 0 THEN 0 ELSE Value(SubSeq(ds, 1, Len(ds) - 1)) * Radix + ds[Len(ds)]

\* The first k digits of the hash of the entropy (a stand-in for SHA-256).
Checksum(e, k) == (e * 7 + 3) % Pow(Radix, k)

IsWord(w) == \E i \in 1..Len(Wordlist) : Wordlist[i] = w
IndexOf(w) == (CHOOSE i \in 1..Len(Wordlist) : Wordlist[i] = w) - 1
WordsOf(ds) == [i \in 1..Len(ds) |-> Wordlist[ds[i] + 1]]

\* Mnemonic::generate(n) on entropy e, rendered by to_string().
Mnemonic_generate(n, e) ==
    IF n \notin ValidWordCounts
    THEN [ok |-> FALSE, val |-> <<>>, err |-> "bad-word-count"]
    ELSE [ok |-> TRUE,
          val |-> WordsOf(Digits(e, n - n \div 3) \o Digits(Checksum(e, n \div 3), n \div 3)),
          err |-> ""]

\* Mnemonic::parse(text).
Mnemonic_parse(text) ==
    IF Len(text) \notin ValidWordCounts
    THEN [ok |-> FALSE, val |-> <<>>, err |-> "bad-word-count"]
    ELSE IF \E i \in 1..Len(text) : ~IsWord(text[i])
    THEN [ok |-> FALSE, val |-> <<>>, err |-> "unknown-word"]
    ELSE LET ds == [i \in 1..Len(text) |-> IndexOf(text[i])]
             n == Len(text)
             ent == Value(SubSeq(ds, 1, n - n \div 3))
             cs == Value(SubSeq(ds, n - n \div 3 + 1, n))
         IN IF cs = Checksum(ent, n \div 3)
            THEN [ok |-> TRUE, val |-> text, err |-> ""]
            ELSE [ok |-> FALSE, val |-> <<>>, err |-> "invalid-checksum"]

\* Mnemonic::to_seed_normalized(""): a deterministic function of the phrase.
to_seed_normalized(m) == <<"seed", m>>

\* Entropy the generator may draw.
Entropies == 0..MaxEntropy

generate_mnemonic(e) ==
    LET mnemonic == Mnemonic_generate(WordCount, e)
    IN IF mnemonic.ok
       THEN Ok(mnemonic.val)
       ELSE Err("InternalError", <<"Failed to generate mnemonic: ", mnemonic.err>>)

mnemonic_to_seed_substituting(mnemonic_words) ==
    LET mnemonic == Mnemonic_parse(mnemonic_words)
    IN IF mnemonic.ok
       THEN Ok(to_seed_normalized(mnemonic.val))
       ELSE Ok(to_seed_normalized(<<>>))
mnemonic_to_seed(mnemonic_words) ==
    LET mnemonic == Mnemonic_parse(mnemonic_words)
    IN IF mnemonic.ok
       THEN Ok(to_seed_normalized(mnemonic.val))
       ELSE Err("InvalidInput", <<"Invalid mnemonic: ", mnemonic.err>>)

\* Mnemonic texts a caller may pass: a generated phrase and texts that are not
\* mnemonics (the empty text, a phrase cut short, a phrase with a word off
\* the list, a phrase with its last word changed).
OtherWord(w) == IF w = Wordlist[1] THEN Wordlist[2] ELSE Wordlist[1]
GeneratedPhrases == {generate_mnemonic(0).val}
BrokenPhrases ==
    LET p == generate_mnemonic(0).val
    IN {<<>>, SubSeq(p, 1, Len(p) - 1),
        [p EXCEPT ![1] = "zebra"],
        [p EXCEPT ![Len(p)] = OtherWord(p[Len(p)])]}
PhraseInputs == GeneratedPhrases \cup BrokenPhrases

\* mnemonic_to_seed on each of these texts.
SeedOf == [m \in PhraseInputs |-> mnemonic_to_seed(m)]

(***************************************************************************)
(* The type bridge.  A text is the sequence of its characters; a u64 is    *)
(* the pair <<high, low>> of its 32-bit halves.                            *)
(***************************************************************************)
U64 == {<<hi, lo>> : hi \in 0..MaxHalf, lo \in 0..MaxHalf}

\* impl From<Amount> for FFIAmount: amount.into() is the amount's u64.
FFIAmount_from(amount) == [value |-> amount.sat]

\* impl From<FFIAmount> for Amount
Amount_from(ffi_amount) == [sat |-> ffi_amount.value]

\* Display of the engine's CurrencyUnit and MintUrl (to_string()).
CurrencyUnit_to_string(currency) ==
    CASE currency = "Sat" -> "sat"
      [] currency = "Msat" -> "msat"
      [] currency = "Usd" -> "usd"
      [] currency = "Eur" -> "eur"
MintUrl_to_string(mint_url) == mint_url.url

\* The engine's MintQuoteState; the foreign enum has the first three.
MintQuoteStates == {"Unpaid", "Paid", "Issued", "Pending"}

FFIMintQuoteState_from_paid_default(state) ==
    CASE state = "Unpaid" -> "Unpaid"
      [] state = "Paid" -> "Paid"
      [] state = "Issued" -> "Issued"
      [] OTHER -> "Paid"
\* impl From<MintQuoteState> for FFIMintQuoteState
FFIMintQuoteState_from(state) ==
    CASE state = "Unpaid" -> "Unpaid"
      [] state = "Paid" -> "Paid"
      [] state = "Issued" -> "Issued"
      [] OTHER -> "Unpaid"

\* impl From<MintQuote> for FFIMintQuote
FFIMintQuote_from(quote) ==
    [id |-> quote.id,
     mint_url |-> MintUrl_to_string(quote.mint_url),
     amount |-> FFIAmount_from(quote.amount),
     unit |-> CurrencyUnit_to_string(quote.unit),
     request |-> quote.request,
     state |-> FFIMintQuoteState_from(quote.state),
     expiry |-> quote.expiry]

\* impl From<MintQuoteBolt11Response<String>> for FFIMintQuoteBolt11Response
FFIMintQuoteBolt11Response_from(response) ==
    [quote |-> response.quote,
     request |-> response.request,
     state |-> FFIMintQuoteState_from(response.state),
     expiry |-> response.expiry]

\* impl From<MeltQuote> for FFIMeltQuote
FFIMeltQuote_from(quote) ==
    [id |-> quote.id,
     unit |-> CurrencyUnit_to_string(quote.unit),
     amount |-> FFIAmount_from(quote.amount),
     request |-> quote.request,
     fee_reserve |-> FFIAmount_from(quote.fee_reserve),
     expiry |-> quote.expiry,
     payment_preimage |-> quote.payment_preimage]

unwrap_or_default(o) == IF IsSome(o) THEN Unwrap(o) ELSE ""

FFIMelted_from_defaulting(melted) ==
    [state |-> melted.state,
     preimage |-> Some(unwrap_or_default(melted.preimage)),
     amount |-> FFIAmount_from(melted.amount),
     fee_paid |-> FFIAmount_from(melted.fee_paid)]
\* impl From<Melted> for FFIMelted (the state's to_string() is its name)
FFIMelted_from(melted) ==
    [state |-> melted.state,
     preimage |-> melted.preimage,
     amount |-> FFIAmount_from(melted.amount),
     fee_paid |-> FFIAmount_from(melted.fee_paid)]

\* impl TryFrom<Token> for FFIToken.  token.mint_url() resolves or fails;
\* the unit is a String on the foreign side: unwrap_or_default().
FFIToken_try_from(token) ==
    IF ~token.mint_url.ok
    THEN Err("WalletError", <<token.mint_url.err>>)
    ELSE Ok(<<[token_string |-> token.text,
             mint |-> MintUrl_to_string(token.mint_url.val),
             memo |-> token.memo,
             unit |-> unwrap_or_default(
                          IF IsSome(token.unit)
                          THEN Some(CurrencyUnit_to_string(Unwrap(token.unit)))
                          ELSE None)]>>)

\* impl From<FFISendMemo> for SendMemo
SendMemo_from(memo) == [memo |-> memo.memo, include_memo |-> memo.include_memo]

\* impl From<FFISplitTarget> for SplitTarget; SplitTarget::default() is None.
SplitTarget_from(split) ==
    CASE split = "None" -> "None"
      [] split = "Default" -> "None"

\* impl From<FFISendKind> for SendKind
SendKind_from(kind) ==
    CASE kind.tag = "OnlineExact" -> [tag |-> "OnlineExact"]
      [] kind.tag = "OnlineTolerance" ->
            [tag |-> "OnlineTolerance", tolerance |-> Amount_from(kind.tolerance)]
      [] kind.tag = "OfflineExact" -> [tag |-> "OfflineExact"]
      [] kind.tag = "OfflineTolerance" ->
            [tag |-> "OfflineTolerance", tolerance |-> Amount_from(kind.tolerance)]

\* `p as usize`: the value modulo 2^width of the build's pointer width.
as_usize(p, width) == IF width = 64 THEN p ELSE <<0, p[2]>>

\* impl From<FFISendOptions> for SendOptions
SendOptions_from(options, width) ==
    [memo |-> IF IsSome(options.memo) THEN Some(SendMemo_from(Unwrap(options.memo))) ELSE None,
     conditions |-> None,
     amount_split_target |-> SplitTarget_from(options.amount_split_target),
     send_kind |-> SendKind_from(options.send_kind),
     include_fee |-> options.include_fee,
     metadata |-> options.metadata,
     max_proofs |-> IF IsSome(options.max_proofs)
                    THEN Some(as_usize(Unwrap(options.max_proofs), width))
                    ELSE None]

\* str::to_lowercase on the characters used here: ASCII capitals, the
\* Kelvin sign (lowercase k), the dotted capital I (lowercase i followed by a
\* combining dot); any other character is its own lowercase.
LowerOf(c) ==
    CASE c = "S" -> <<"s">>
      [] c = "A" -> <<"a">>
      [] c = "T" -> <<"t">>
      [] c = "M" -> <<"m">>
      [] c = "U" -> <<"u">>
      [] c = "D" -> <<"d">>
      [] c = "E" -> <<"e">>
      [] c = "R" -> <<"r">>
      [] c = "kelvin" -> <<"k">>
      [] c = "I-dot" -> <<"i", "dot-above">>
      [] OTHER -> <<c>>
RECURSIVE to_lowercase(_)
to_lowercase(text) ==
    IF text = <<>> THEN <<>> ELSE LowerOf(Head(text)) \o to_lowercase(Tail(text))

FFICurrencyUnit_try_from_exact(unit_text) ==
    CASE unit_text = <<"s", "a", "t">> -> Ok("Sat")
      [] unit_text = <<"m", "s", "a", "t">> -> Ok("Msat")
      [] unit_text = <<"u", "s", "d">> -> Ok("Usd")
      [] unit_text = <<"e", "u", "r">> -> Ok("Eur")
      [] OTHER -> Err("InvalidInput", <<"Unknown currency unit: ", unit_text>>)
\* impl TryFrom<String> for FFICurrencyUnit
FFICurrencyUnit_try_from(unit_text) ==
    LET lower == to_lowercase(unit_text)
    IN CASE lower = <<"s", "a", "t">> -> Ok("Sat")
         [] lower = <<"m", "s", "a", "t">> -> Ok("Msat")
         [] lower = <<"u", "s", "d">> -> Ok("Usd")
         [] lower = <<"e", "u", "r">> -> Ok("Eur")
         [] OTHER -> Err("InvalidInput", <<"Unknown currency unit: ", unit_text>>)

(***************************************************************************)
(* The wallet engine.  An engine call completes with a value or an error.  *)
(***************************************************************************)
EOk(v) == [ok |-> TRUE, val |-> v, err |-> ""]
EErr(e) == [ok |-> FALSE, val |-> <<>>, err |-> e]
EngineErrors == {EErr(e) : e \in ErrorTexts}

\* What each engine call can complete with.  get_mint_info: Option<MintInfo>
\* with an optional name; get_mint_keysets: a list, here its length; mint:
\* proofs whose total_amount() sums or overflows; send: a token whose
\* mint_url() resolves or not.
EngineOutcomes(name) ==
    CASE name = "get_mint_info" ->
            {EOk(None), EOk(Some([name |-> None])), EOk(Some([name |-> Some("Mint")]))}
                \cup EngineErrors
      [] name = "get_mint_keysets" -> {EOk(<<n>>) : n \in 0..1} \cup EngineErrors
      [] name = "mint" ->
            {EOk(<<[total_amount |-> r]>>) : r \in {EOk(<<>>)} \cup EngineErrors}
                \cup EngineErrors
      [] name = "send" ->
            {EOk(<<[mint_url |-> r, text |-> "cashuB", memo |-> None, unit |-> Some("Sat")]>>) :
                r \in {EOk([url |-> "https://mint"])} \cup EngineErrors}
                \cup EngineErrors
      [] OTHER -> {EOk(<<>>)} \cup EngineErrors

\* CdkWallet::new is synchronous: it succeeds or fails on its arguments.
NewOutcomes == {EOk(<<>>)} \cup EngineErrors

(***************************************************************************)
(* Units of work.  A unit is the async block an operation hands to         *)
(* block_on; pc names the engine call it awaits, "done" once it finished.  *)
(* began, prep and cause remember what the unit did: the engine calls it   *)
(* began, the PreparedSend it obtained, the engine failure it saw.         *)
(***************************************************************************)
HandleOps == {"mint_quote", "mint_quote_state", "mint", "prepare_send", "send",
              "balance", "get_mint_info", "melt_quote", "melt"}

NoUnit == [op |-> "none", h |-> 0, seq |-> 0, rt |-> 0, store |-> 0, pc |-> "none",
           ks |-> 0, res |-> Pending, cause |-> None, arg |-> <<>>,
           began |-> <<>>, prep |-> 0]

NoReturn == [op |-> "none", h |-> 0, ok |-> FALSE, kind |-> "Pending", msg |-> <<>>,
             val |-> <<>>, cause |-> None, arg |-> <<>>, began |-> <<>>, prep |-> 0,
             store |-> 0]

\* A call that returned r without entering block_on; h is the handle it made.
Returned(op, h, r, cause, arg) ==
    [op |-> op, h |-> h, ok |-> r.ok, kind |-> r.kind, msg |-> r.msg, val |-> r.val,
     cause |-> cause, arg |-> arg, began |-> <<>>, prep |-> 0, store |-> 0]

\* The return of the call that ran unit u, with result r; h is the handle a
\* constructor made (0 for none, and for the operations on a handle).
ReturnOf(u, h, r) ==
    [op |-> u.op, h |-> h, ok |-> r.ok, kind |-> r.kind, msg |-> r.msg, val |-> r.val,
     cause |-> u.cause, arg |-> u.arg, began |-> u.began, prep |-> u.prep,
     store |-> u.store]

Live == {h \in Handles : wallets[h].live}
Idle(t) == unit[t].op = "none"
Busy(t) == unit[t].op # "none"
PendingRestores == {t \in Threads : unit[t].op = "restore_from_mnemonic"}

RECURSIVE SumCalls(_)
SumCalls(n) == IF n = 0 THEN 0 ELSE ncalls[n] + SumCalls(n - 1)
\* The model stops taking new public calls after MaxOps of them.
MayCall == SumCalls(NThreads) < MaxOps

\* The failure of an engine call, remembered by the unit that saw it.
Saw(u, name, e) == [u EXCEPT !.cause = Some([call |-> name, err |-> e])]

\* The unit awaits engine call `name` next (on PreparedSend p, for send).
Await(u, pc, name, p) ==
    [unit |-> [u EXCEPT !.pc = pc, !.began = Append(@, [name |-> name, prep |-> p])],
     call |-> Some([name |-> name, prep |-> p])]
\* The unit finishes with result r.
Finish(u, r) == [unit |-> [u EXCEPT !.pc = "done", !.res = r], call |-> None]

\* The PreparedSend the engine returns next.
NextPrepared == Len(preps) + 1
\* The unit holds the PreparedSend the engine just returned.
Holding(u) == [u EXCEPT !.prep = NextPrepared]

\* `x.await?` followed by `Ok(x.into())`: the one-call operations.
one_call(u, out) ==
    IF out.ok THEN Finish(u, Ok(<<>>))
    ELSE Finish(Saw(u, u.pc, out.err), FromCdkError(out.err))

mint_quote_unit(u, out) == one_call(u, out)
mint_quote_state_unit(u, out) == one_call(u, out)
prepare_send_unit(u, out) ==
    IF out.ok THEN Finish(Holding(u), Ok(<<>>))
    ELSE Finish(Saw(u, u.pc, out.err), FromCdkError(out.err))
balance_unit(u, out) == one_call(u, out)
melt_quote_unit(u, out) == one_call(u, out)
melt_unit(u, out) == one_call(u, out)

mint_unit(u, out) ==
    IF ~out.ok THEN Finish(Saw(u, u.pc, out.err), FromCdkError(out.err))
    ELSE LET amount == Unwrap(out.val).total_amount
         IN IF amount.ok THEN Finish(u, Ok(<<>>))
            ELSE Finish(Saw(u, "total_amount", amount.err), FromNut00Error(amount.err))

\* The earliest PreparedSend made on handle h, if any (else the next one).
CachedPrepared(h) ==
    LET mine == {i \in 1..Len(preps) : preps[i].h = h}
    IN IF mine = {} THEN NextPrepared
       ELSE CHOOSE i \in mine : \A j \in mine : i <= j

send_unit_cached(u, out) ==
    IF ~out.ok THEN Finish(Saw(u, u.pc, out.err), FromCdkError(out.err))
    ELSE IF u.pc = "prepare_send"
    THEN Await(Holding(u), "send", "send", CachedPrepared(u.h))
    ELSE LET token == FFIToken_try_from(Unwrap(out.val))
         IN IF token.ok THEN Finish(u, token)
            ELSE Finish(Saw(u, "mint_url", Unwrap(out.val).mint_url.err), token)
send_unit(u, out) ==
    IF ~out.ok THEN Finish(Saw(u, u.pc, out.err), FromCdkError(out.err))
    ELSE IF u.pc = "prepare_send"
    THEN Await(Holding(u), "send", "send", NextPrepared)
    ELSE LET token == FFIToken_try_from(Unwrap(out.val))
         IN IF token.ok THEN Finish(u, token)
            ELSE Finish(Saw(u, "mint_url", Unwrap(out.val).mint_url.err), token)

\* mint_info.name.unwrap_or_else(|| "Unknown Mint")
NameOf(mint_info) == IF IsSome(mint_info.name) THEN Unwrap(mint_info.name) ELSE "Unknown Mint"

get_mint_info_unit_strict(u, out) ==
    CASE u.pc = "get_mint_info" ->
            IF ~out.ok THEN Finish(Saw(u, u.pc, out.err), FromCdkError(out.err))
            ELSE IF IsSome(out.val)
            THEN Finish(u, Ok(<<"Mint info already initialized: ", NameOf(Unwrap(out.val))>>))
            ELSE Await(u, "get_mint_keysets", "get_mint_keysets", 0)
      [] u.pc = "get_mint_keysets" ->
            IF ~out.ok
            THEN Finish(Saw(u, u.pc, out.err), FromCdkError(out.err))
            ELSE Await([u EXCEPT !.ks = Unwrap(out.val)], "get_mint_info_again", "get_mint_info", 0)
      [] OTHER ->
            IF ~out.ok THEN Finish(Saw(u, u.pc, out.err), FromCdkError(out.err))
            ELSE IF IsSome(out.val)
            THEN Finish(u, Ok(<<"Mint info fetched and initialized: ", NameOf(Unwrap(out.val)),
                                " (keysets: ", ToString(u.ks), ")">>))
            ELSE Finish(u, Ok(<<"Mint keysets loaded (", ToString(u.ks),
                                " keysets) but mint info still not available">>))
get_mint_info_unit(u, out) ==
    CASE u.pc = "get_mint_info" ->
            IF ~out.ok THEN Finish(Saw(u, u.pc, out.err), FromCdkError(out.err))
            ELSE IF IsSome(out.val)
            THEN Finish(u, Ok(<<"Mint info already initialized: ", NameOf(Unwrap(out.val))>>))
            ELSE Await(u, "get_mint_keysets", "get_mint_keysets", 0)
      [] u.pc = "get_mint_keysets" ->
            IF ~out.ok
            THEN Finish(Saw(u, u.pc, out.err), Ok(<<"Failed to get mint keysets: ", out.err>>))
            ELSE Await([u EXCEPT !.ks = Unwrap(out.val)], "get_mint_info_again", "get_mint_info", 0)
      [] OTHER ->
            IF ~out.ok THEN Finish(Saw(u, u.pc, out.err), FromCdkError(out.err))
            ELSE IF IsSome(out.val)
            THEN Finish(u, Ok(<<"Mint info fetched and initialized: ", NameOf(Unwrap(out.val)),
                                " (keysets: ", ToString(u.ks), ")">>))
            ELSE Finish(u, Ok(<<"Mint keysets loaded (", ToString(u.ks),
                                " keysets) but mint info still not available">>))

\* restore_from_mnemonic's `wallet.restore().await`.
restore_unit(u, out) == one_call(u, out)

\* The unit continues, from the completion of the call it awaits to its next
\* await or its end.
Resume(u, out) ==
    CASE u.op = "mint_quote" -> mint_quote_unit(u, out)
      [] u.op = "mint_quote_state" -> mint_quote_state_unit(u, out)
      [] u.op = "mint" -> mint_unit(u, out)
      [] u.op = "prepare_send" -> prepare_send_unit(u, out)
      [] u.op = "send" -> send_unit(u, out)
      [] u.op = "balance" -> balance_unit(u, out)
      [] u.op = "get_mint_info" -> get_mint_info_unit(u, out)
      [] u.op = "melt_quote" -> melt_quote_unit(u, out)
      [] u.op = "melt" -> melt_unit(u, out)
      [] OTHER -> restore_unit(u, out)

\* The engine call an operation's unit begins with.
FirstCall(op) ==
    CASE op = "balance" -> "total_balance"
      [] op = "send" -> "prepare_send"
      [] OTHER -> op

(***************************************************************************)
(* Execution contexts.                                                     *)
(***************************************************************************)
\* runtime(): Runtime::new() makes a runtime of its own at every call.
runtime_shared == rtCount
runtime == rtCount + 1

\* Runtime::block_on(future): the calling thread stays in the unit it handed
\* over until the future has completed (spawning it instead would leave the
\* caller free at once).
spawn_detached(u) == NoUnit
block_on(u) == u

FreeSlots == Handles \ Live
FreeSlot == CHOOSE h \in FreeSlots : \A g \in FreeSlots : h <= g
CanConstruct == Cardinality(Live) + Cardinality(PendingRestores) < MaxWallets

Call(t, u, name, p) ==
    [t |-> t, seq |-> u.seq, h |-> u.h, rt |-> u.rt, name |-> name, prep |-> p]

(***************************************************************************)
(* Initial state: the stores are open, one wallet handle has been made by  *)
(* from_mnemonic on the first store, and every calling thread is outside   *)
(* the library.                                                            *)
(***************************************************************************)
NoWallet == [live |-> FALSE, store |-> 0, rt |-> 0]
NoConv == [fn |-> "none"]

WalletInit ==
    /\ wallets = [h \in Handles |->
            IF h = 1 THEN [live |-> TRUE, store |-> 1, rt |-> 1] ELSE NoWallet]
    /\ storeRefs = [s \in Stores |-> IF s = 1 THEN 1 ELSE 0]
    /\ rtCount = 1
    /\ unit = [t \in Threads |-> NoUnit]
    /\ inflight = {}
    /\ preps = <<>>
    /\ last = NoReturn
    /\ ncalls = [t \in Threads |-> 0]

Init ==
    /\ WalletInit
    /\ cin = NoConv
    /\ cout = NoConv

(***************************************************************************)
(* Free function and constructors.                                         *)
(***************************************************************************)
call_generate_mnemonic(t, e) ==
    /\ Idle(t)
    /\ MayCall
    /\ ncalls' = [ncalls EXCEPT ![t] = @ + 1]
    /\ last' = Returned("generate_mnemonic", 0, generate_mnemonic(e), None, <<>>)
    /\ UNCHANGED <<wallets, storeRefs, rtCount, unit, inflight, preps, cin, cout>>

from_mnemonic(t, mnemonic_words) ==
    /\ Idle(t)
    /\ MayCall
    /\ ncalls' = [ncalls EXCEPT ![t] = @ + 1]
    /\ LET seed == SeedOf[mnemonic_words]
           op == "from_mnemonic"
       IN IF ~seed.ok
          THEN /\ last' = Returned(op, 0, seed, None, mnemonic_words)
               /\ UNCHANGED <<wallets, storeRefs, rtCount>>
          ELSE \E localstore \in Stores, new \in NewOutcomes :
                 IF ~new.ok
                 THEN /\ last' = Returned(op, 0, FromCdkError(new.err),
                                    Some([call |-> "CdkWallet::new", err |-> new.err]),
                                    mnemonic_words)
                      /\ UNCHANGED <<wallets, storeRefs, rtCount>>
                 ELSE /\ CanConstruct
                      /\ wallets' = [wallets EXCEPT ![FreeSlot] =
                               [live |-> TRUE, store |-> localstore, rt |-> runtime]]
                      /\ storeRefs' = [storeRefs EXCEPT ![localstore] = @ + 1]
                      /\ rtCount' = rtCount + 1
                      /\ last' = Returned(op, FreeSlot, Ok(<<>>), None, mnemonic_words)
    /\ UNCHANGED <<unit, inflight, preps, cin, cout>>

\* Up to the point where block_on(wallet.restore()) has begun.
restore_from_mnemonic(t, mnemonic_words) ==
    /\ Idle(t)
    /\ MayCall
    /\ ncalls' = [ncalls EXCEPT ![t] = @ + 1]
    /\ LET seed == SeedOf[mnemonic_words]
           op == "restore_from_mnemonic"
       IN IF ~seed.ok
          THEN /\ last' = Returned(op, 0, seed, None, mnemonic_words)
               /\ UNCHANGED <<storeRefs, rtCount, unit, inflight>>
          ELSE \E localstore \in Stores, new \in NewOutcomes :
                 IF ~new.ok
                 THEN /\ last' = Returned(op, 0, FromCdkError(new.err),
                                    Some([call |-> "CdkWallet::new", err |-> new.err]),
                                    mnemonic_words)
                      /\ UNCHANGED <<storeRefs, rtCount, unit, inflight>>
                 ELSE LET u == [NoUnit EXCEPT !.op = op, !.seq = ncalls[t] + 1,
                                    !.rt = runtime, !.store = localstore, !.pc = "restore",
                                    !.arg = mnemonic_words,
                                    !.began = <<[name |-> "restore", prep |-> 0]>>]
                      IN /\ CanConstruct
                         /\ storeRefs' = [storeRefs EXCEPT ![localstore] = @ + 1]
                         /\ rtCount' = rtCount + 1
                         /\ unit' = [unit EXCEPT ![t] = block_on(u)]
                         /\ inflight' = inflight \cup {Call(t, u, "restore", 0)}
                         /\ last' = NoReturn
    /\ UNCHANGED <<wallets, preps, cin, cout>>

(***************************************************************************)
(* Operations on a wallet handle: self.runtime.block_on(async { ... }).    *)
(* Entering block_on polls the unit on the calling thread up to its first  *)
(* await; nothing in block_on excludes another thread's unit.              *)
(***************************************************************************)
block_on_enter(t, op, h) ==
    /\ Idle(t)
    /\ MayCall
    /\ h \in Live
    /\ ncalls' = [ncalls EXCEPT ![t] = @ + 1]
    /\ LET u == [NoUnit EXCEPT !.op = op, !.h = h, !.seq = ncalls[t] + 1,
                               !.rt = wallets[h].rt, !.store = wallets[h].store,
                               !.pc = FirstCall(op),
                               !.began = <<[name |-> FirstCall(op), prep |-> 0]>>]
       IN /\ unit' = [unit EXCEPT ![t] = block_on(u)]
          /\ inflight' = inflight \cup {Call(t, u, u.pc, 0)}
    /\ last' = NoReturn
    /\ UNCHANGED <<wallets, storeRefs, rtCount, preps, cin, cout>>

mint_quote(t, h) == block_on_enter(t, "mint_quote", h)
mint_quote_state(t, h) == block_on_enter(t, "mint_quote_state", h)
mint(t, h) == block_on_enter(t, "mint", h)
prepare_send(t, h) == block_on_enter(t, "prepare_send", h)
send(t, h) == block_on_enter(t, "send", h)
balance(t, h) == block_on_enter(t, "balance", h)
get_mint_info(t, h) == block_on_enter(t, "get_mint_info", h)
melt_quote(t, h) == block_on_enter(t, "melt_quote", h)
melt(t, h) == block_on_enter(t, "melt", h)

\* restore_from_mnemonic yields a handle only if restore succeeded (`?`).
restore_yields_always(u) == TRUE
restore_yields(u) == u.res.ok

\* An engine call completes.  The unit awaiting it runs on, on its calling
\* thread, to its next await, or to its end: then block_on returns and the
\* call hands its result to the caller (the restoring constructor first
\* wraps the wallet in a handle, or drops it).
EngineCompletes(c, out) ==
    /\ c \in inflight
    /\ out \in EngineOutcomes(c.name)
    /\ LET t == c.t
           awaited == unit[t].op # "none" /\ unit[t].seq = c.seq
           r == IF awaited THEN Resume(unit[t], out) ELSE [unit |-> unit[t], call |-> None]
           u == r.unit
           began == IF IsSome(r.call)
                    THEN {Call(t, u, Unwrap(r.call).name, Unwrap(r.call).prep)}
                    ELSE {}
       IN /\ inflight' = (inflight \ {c}) \cup began
          /\ preps' = IF u.prep # unit[t].prep
                      THEN Append(preps, [op |-> u.op, h |-> u.h, t |-> t, seq |-> u.seq])
                      ELSE preps
          /\ IF ~awaited \/ u.pc # "done"
             THEN /\ unit' = [unit EXCEPT ![t] = u]
                  /\ last' = NoReturn
                  /\ UNCHANGED <<wallets, storeRefs>>
             ELSE /\ unit' = [unit EXCEPT ![t] = NoUnit]
                  /\ IF u.op # "restore_from_mnemonic"
                     THEN /\ last' = ReturnOf(u, 0, u.res)
                          /\ UNCHANGED <<wallets, storeRefs>>
                     ELSE IF restore_yields(u)
                     THEN /\ wallets' = [wallets EXCEPT ![FreeSlot] =
                                  [live |-> TRUE, store |-> u.store, rt |-> u.rt]]
                          /\ last' = ReturnOf(u, FreeSlot, Ok(<<>>))
                          /\ UNCHANGED storeRefs
                     ELSE /\ storeRefs' = [storeRefs EXCEPT ![u.store] = @ - 1]
                          /\ last' = ReturnOf(u, 0, u.res)
                          /\ UNCHANGED wallets
    /\ UNCHANGED <<rtCount, ncalls, cin, cout>>

Next ==
    \/ \E t \in Threads, e \in Entropies : call_generate_mnemonic(t, e)
    \/ \E t \in Threads, m \in PhraseInputs : from_mnemonic(t, m)
    \/ \E t \in Threads, m \in PhraseInputs : restore_from_mnemonic(t, m)
    \/ \E t \in Threads, h \in Handles : mint_quote(t, h)
    \/ \E t \in Threads, h \in Handles : mint_quote_state(t, h)
    \/ \E t \in Threads, h \in Handles : mint(t, h)
    \/ \E t \in Threads, h \in Handles : prepare_send(t, h)
    \/ \E t \in Threads, h \in Handles : send(t, h)
    \/ \E t \in Threads, h \in Handles : balance(t, h)
    \/ \E t \in Threads, h \in Handles : get_mint_info(t, h)
    \/ \E t \in Threads, h \in Handles : melt_quote(t, h)
    \/ \E t \in Threads, h \in Handles : melt(t, h)
    \/ \E c \in inflight : \E out \in EngineOutcomes(c.name) : EngineCompletes(c, out)

Spec == Init /\ [][Next]_vars

(***************************************************************************)
(* Properties of the wallet handle and its operations.                     *)
(***************************************************************************)
OnHandle(t) == unit[t].op \in HandleOps
InFlightOf(t) == {c \in inflight : c.t = t}
ContextsOfLive == {wallets[h].rt : h \in Live}

\* C1, as stated: operations invoked from different calling threads on the
\* same wallet handle serialize, so that at no time the units of work of two
\* operations of one handle are in progress together.
C1_SerializedPerHandle ==
    \A t1, t2 \in Threads :
        (t1 # t2 /\ OnHandle(t1) /\ OnHandle(t2)) => unit[t1].h # unit[t2].h

\* C1, amended: every handle owns an execution context that no other handle
\* (and no wallet still being restored) shares, and every unit of work and
\* every engine call of an operation runs under the context of the handle it
\* was invoked on; units of different calling threads may be in progress
\* together, on one handle as on two, and only units on the same handle
\* share a context.
C1_ContextPerHandle ==
    /\ \A h1, h2 \in Live : h1 # h2 => wallets[h1].rt # wallets[h2].rt
    /\ \A t \in Threads :
          /\ OnHandle(t) => unit[t].h \in Live /\ unit[t].rt = wallets[unit[t].h].rt
          /\ t \in PendingRestores => unit[t].rt \notin ContextsOfLive
    /\ \A t1, t2 \in Threads :
          (t1 # t2 /\ Busy(t1) /\ Busy(t2) /\ unit[t1].rt = unit[t2].rt)
              => OnHandle(t1) /\ OnHandle(t2) /\ unit[t1].h = unit[t2].h
    /\ \A c \in inflight :
          Busy(c.t) => c.rt = unit[c.t].rt /\ c.h = unit[c.t].h

\* Two units of work on one handle, each with an engine call in flight.
C1_Witness ==
    \E t1, t2 \in Threads :
        /\ t1 # t2
        /\ OnHandle(t1) /\ OnHandle(t2)
        /\ unit[t1].h = unit[t2].h
        /\ InFlightOf(t1) # {} /\ InFlightOf(t2) # {}

\* C2, as stated: get_mint_info returns a success string whatever its engine
\* calls do.
C2_NeverFailsOutward == last.op = "get_mint_info" => last.ok

\* C2, amended: get_mint_info returns WalletError with the engine's text when
\* its first or its second get_mint_info lookup fails; in every other case,
\* the failure of get_mint_keysets included, it returns a success string.
C2_FoldsOnlyKeysetsFailure ==
    last.op = "get_mint_info" =>
        IF IsSome(last.cause) /\ Unwrap(last.cause).call # "get_mint_keysets"
        THEN /\ ~last.ok
             /\ last.kind = "WalletError"
             /\ last.msg = <<Unwrap(last.cause).err>>
        ELSE /\ last.ok
             /\ Len(last.val) >= 2
             /\ IsSome(last.cause) =>
                    last.val = <<"Failed to get mint keysets: ", Unwrap(last.cause).err>>

\* get_mint_info returned a success string although get_mint_keysets failed.
C2_Witness ==
    /\ last.op = "get_mint_info"
    /\ last.ok
    /\ IsSome(last.cause)
    /\ Unwrap(last.cause).call = "get_mint_keysets"

MappedOps == {"mint_quote", "mint_quote_state", "mint", "prepare_send", "send",
              "balance", "melt_quote", "melt"}

\* C3: each of mint_quote, mint_quote_state, mint, prepare_send, send,
\* balance, melt_quote and melt returns a success value, or else WalletError
\* carrying the text of the failure it met; it fails exactly when a call
\* inside it failed, and never with another error kind.
C3_ErrorMappingClosed ==
    last.op \in MappedOps =>
        /\ last.ok <=> ~IsSome(last.cause)
        /\ last.ok => last.kind = "Ok"
        /\ ~last.ok =>
              /\ last.kind = "WalletError"
              /\ last.msg = <<Unwrap(last.cause).err>>

\* melt returned WalletError carrying the text of the engine's failure.
C3_Witness ==
    /\ last.op = "melt"
    /\ last.kind = "WalletError"
    /\ last.cause = Some([call |-> "melt", err |-> "e2"])
    /\ last.msg = <<"e2">>

\* C4: a calling thread is inside a public call for as long as an engine call
\* of that call is in flight, so that no engine call outlives the call that
\* began it; the engine calls in flight for a thread are those of its latest
\* call, at most one at a time, hence calls made one after the other by one
\* thread run their engine calls in call order.
C4_Blocking ==
    /\ \A c \in inflight :
          /\ Busy(c.t)
          /\ unit[c.t].seq = c.seq
          /\ c.seq = ncalls[c.t]
          /\ c.h = unit[c.t].h
    /\ \A t \in Threads :
          /\ Cardinality(InFlightOf(t)) <= 1
          /\ Busy(t) => InFlightOf(t) # {} /\ unit[t].seq = ncalls[t]

\* A thread's second call on a handle has an engine call in flight.
C4_Witness ==
    \E c \in inflight : c.seq = 2 /\ c.h = 1 /\ last.op = "none"

Began(name, p) == [name |-> name, prep |-> p]

\* C5: send invokes the engine's prepare_send first and, only if that
\* succeeded, the engine's send on the PreparedSend that very unit of work
\* obtained; if preparation fails the engine's send is not invoked and
\* WalletError is returned.  A PreparedSend obtained by the prepare_send
\* operation is never committed: prepare_send invokes no engine send, and a
\* later send prepares anew.
C5_SendPreparesThenCommits ==
    /\ \A c \in inflight :
          c.name = "send" =>
              /\ unit[c.t].op = "send"
              /\ unit[c.t].seq = c.seq
              /\ c.prep = unit[c.t].prep
              /\ c.prep \in 1..Len(preps)
              /\ preps[c.prep] = [op |-> "send", h |-> c.h, t |-> c.t, seq |-> c.seq]
              /\ unit[c.t].began = <<Began("prepare_send", 0), Began("send", c.prep)>>
    /\ \A c \in inflight :
          (c.name = "prepare_send" /\ unit[c.t].op \in {"send", "prepare_send"})
              => unit[c.t].began = <<Began("prepare_send", 0)>> /\ unit[c.t].prep = 0
    /\ last.op = "send" =>
          IF IsSome(last.cause) /\ Unwrap(last.cause).call = "prepare_send"
          THEN /\ last.began = <<Began("prepare_send", 0)>>
               /\ last.kind = "WalletError"
               /\ last.msg = <<Unwrap(last.cause).err>>
               /\ last.prep = 0
          ELSE /\ last.prep \in 1..Len(preps)
               /\ preps[last.prep].op = "send"
               /\ last.began = <<Began("prepare_send", 0), Began("send", last.prep)>>
    /\ last.op = "prepare_send" =>
          /\ last.began = <<Began("prepare_send", 0)>>
          /\ last.ok => last.prep \in 1..Len(preps) /\ preps[last.prep].op = "prepare_send"

\* A thread called prepare_send and then send on the same handle: the engine
\* prepared twice, and send committed the second PreparedSend.
C5_Witness ==
    /\ last.op = "send"
    /\ last.ok
    /\ Len(preps) = 2
    /\ preps[1].op = "prepare_send"
    /\ preps[2].op = "send"
    /\ preps[1].t = preps[2].t
    /\ preps[1].h = preps[2].h
    /\ preps[1].seq < preps[2].seq
    /\ last.prep = 2

RestoreFailed(r) ==
    /\ r.op = "restore_from_mnemonic"
    /\ IsSome(r.cause)
    /\ Unwrap(r.cause).call = "restore"

\* C6: when the engine's restore fails inside restore_from_mnemonic, the call
\* returns WalletError with the engine's text and no handle; the step leaves
\* every wallet handle as it was (the wallet under restoration is dropped and
\* gives up its reference to the store), and while the restore is under way
\* the wallet is no handle either.
C6_RestoreFailureLeavesHandles ==
    [][/\ RestoreFailed(last') =>
              /\ ~last'.ok
              /\ last'.kind = "WalletError"
              /\ last'.msg = <<Unwrap(last'.cause).err>>
              /\ last'.h = 0
              /\ wallets' = wallets
              /\ storeRefs' = [storeRefs EXCEPT ![last'.store] = @ - 1]
              /\ \A t \in Threads : OnHandle(t) => unit'[t] = unit[t]
       /\ (PendingRestores' # PendingRestores /\ last'.op = "none") => wallets' = wallets
      ]_vars

\* restore failed while a handle bound to the same store was operational.
C6_Witness ==
    /\ RestoreFailed(last)
    /\ ~last.ok
    /\ \E h \in Live : wallets[h].store = last.store
    /\ \E t \in Threads : OnHandle(t) /\ unit[t].store = last.store

Constructors == {"from_mnemonic", "restore_from_mnemonic"}

\* Every phrase the generator can produce, on any entropy, is one the
\* mnemonic-to-seed conversion accepts.
AllEntropies == 0..(Pow(Radix, WordCount - WordCount \div 3) - 1)
GeneratedAccepted ==
    \A e \in AllEntropies :
        generate_mnemonic(e).ok /\ mnemonic_to_seed(generate_mnemonic(e).val).ok

\* C7: a wallet constructor given text that is not a mnemonic returns
\* InvalidInput and does nothing else: no engine wallet (no reference to the
\* store taken), no execution context, no engine call, no handle.  And every
\* phrase generate_mnemonic returns is accepted by mnemonic_to_seed.
C7_InvalidMnemonicRejectedFirst ==
    [][/\ (last'.op \in Constructors /\ ~Mnemonic_parse(last'.arg).ok) =>
              /\ ~last'.ok
              /\ last'.kind = "InvalidInput"
              /\ last'.h = 0
              /\ UNCHANGED <<wallets, storeRefs, rtCount, unit, inflight, preps>>
       /\ \A t \in Threads :
              (PendingRestores' # PendingRestores /\ unit'[t] # unit[t] /\ Busy(t)')
                  => Mnemonic_parse(unit'[t].arg).ok
       /\ last'.op = "generate_mnemonic" =>
              /\ last'.ok
              /\ Len(last'.val) = WordCount
              /\ mnemonic_to_seed(last'.val).ok
       /\ GeneratedAccepted
      ]_vars

\* restore_from_mnemonic was given a phrase with a wrong checksum while a
\* handle existed.
C7_Witness ==
    /\ last.op = "restore_from_mnemonic"
    /\ last.kind = "InvalidInput"
    /\ last.msg = <<"Invalid mnemonic: ", "invalid-checksum">>
    /\ Live # {}

(***************************************************************************)
(* The type bridge as a specification: one conversion is applied to one    *)
(* input; cin and cout hold the input and what the conversion made of it.  *)
(* The build's pointer width is either 32 or 64 bits.                      *)
(***************************************************************************)
Widths == {32, 64}

\* The texts handed to the currency-unit parser: every text of at most
\* MaxStrLen characters over Alphabet, every ASCII-case spelling of the four
\* unit words, and a few longer or non-ASCII ones.
Alphabet == {"s", "a", "t", "m", "S", "A", "long-s", " "}
UnitWords == {<<"s", "a", "t">>, <<"m", "s", "a", "t">>, <<"u", "s", "d">>, <<"e", "u", "r">>}
AsciiUpper(c) ==
    CASE c = "s" -> "S" [] c = "a" -> "A" [] c = "t" -> "T" [] c = "m" -> "M"
      [] c = "u" -> "U" [] c = "d" -> "D" [] c = "e" -> "E" [] c = "r" -> "R"
      [] OTHER -> c
Spellings(word) ==
    {[i \in 1..Len(word) |-> IF i \in up THEN AsciiUpper(word[i]) ELSE word[i]] :
        up \in SUBSET (1..Len(word))}
TextsUpTo(n) == UNION {[1..k -> Alphabet] : k \in 0..n}
UnitTexts ==
    TextsUpTo(MaxStrLen)
        \cup UNION {Spellings(w) : w \in UnitWords}
        \cup {<<"s", "a", "t", "s">>, <<"e", "u", "r", "o">>, <<"b", "t", "c">>,
              <<"I-dot">>, <<"U", "S", "D", " ">>, <<"m", "s", "a", "t", "s">>}

Texts == {"", "p"}
Amounts == {[sat |-> <<0, 1>>]}
MintQuotes ==
    {[id |-> "q", mint_url |-> [url |-> "https://mint"], amount |-> a, unit |-> "Sat",
      request |-> "lnbc", state |-> st, expiry |-> e] :
        a \in Amounts, st \in MintQuoteStates, e \in U64}
MintQuoteResponses ==
    {[quote |-> "q", request |-> "lnbc", state |-> st, expiry |-> e] :
        st \in MintQuoteStates, e \in OptionOf(U64)}
MeltQuotes ==
    {[id |-> "q", unit |-> "Sat", amount |-> a, request |-> "lnbc", fee_reserve |-> a,
      expiry |-> e, payment_preimage |-> pre] :
        a \in Amounts, e \in U64, pre \in OptionOf(Texts)}
Melteds ==
    {[state |-> st, preimage |-> pre, amount |-> a, fee_paid |-> a] :
        st \in {"UNPAID", "PAID"}, a \in Amounts, pre \in OptionOf(Texts)}
Tokens ==
    {[text |-> "cashuB", mint_url |-> r, memo |-> memo, unit |-> cu] :
        r \in {EOk([url |-> "https://mint"])} \cup EngineErrors,
        memo \in OptionOf(Texts), cu \in OptionOf({"Sat", "Usd"})}
FFISendMemos == {[memo |-> m, include_memo |-> b] : m \in Texts, b \in BOOLEAN}
FFISendKinds ==
    {[tag |-> "OnlineExact"], [tag |-> "OfflineExact"],
     [tag |-> "OnlineTolerance", tolerance |-> [value |-> <<0, 1>>]],
     [tag |-> "OfflineTolerance", tolerance |-> [value |-> <<0, 1>>]]}
FFISendOptionsInputs ==
    {[memo |-> memo, amount_split_target |-> split, send_kind |-> kind,
      include_fee |-> fee, metadata |-> <<>>, max_proofs |-> mp] :
        memo \in OptionOf(FFISendMemos), split \in {"None", "Default"},
        kind \in FFISendKinds, fee \in BOOLEAN, mp \in OptionOf(U64)}

Convert(fn, in, width, out) ==
    /\ cin' = [fn |-> fn, in |-> in, width |-> width]
    /\ cout' = out
    /\ UNCHANGED <<wallets, storeRefs, rtCount, unit, inflight, preps, last, ncalls>>

parse_currency_unit ==
    /\ cin = NoConv
    /\ \E unit_text \in UnitTexts, width \in Widths :
           Convert("FFICurrencyUnit::try_from", unit_text, width,
                   FFICurrencyUnit_try_from(unit_text))
convert_mint_quote_state ==
    /\ cin = NoConv
    /\ \E state \in MintQuoteStates, width \in Widths :
           Convert("FFIMintQuoteState::from", state, width, FFIMintQuoteState_from(state))
convert_mint_quote ==
    /\ cin = NoConv
    /\ \E quote \in MintQuotes, width \in Widths :
           Convert("FFIMintQuote::from", quote, width, FFIMintQuote_from(quote))
convert_mint_quote_response ==
    /\ cin = NoConv
    /\ \E response \in MintQuoteResponses, width \in Widths :
           Convert("FFIMintQuoteBolt11Response::from", response, width,
                   FFIMintQuoteBolt11Response_from(response))
convert_melt_quote ==
    /\ cin = NoConv
    /\ \E quote \in MeltQuotes, width \in Widths :
           Convert("FFIMeltQuote::from", quote, width, FFIMeltQuote_from(quote))
convert_melted ==
    /\ cin = NoConv
    /\ \E melted \in Melteds, width \in Widths :
           Convert("FFIMelted::from", melted, width, FFIMelted_from(melted))
convert_token ==
    /\ cin = NoConv
    /\ \E token \in Tokens, width \in Widths :
           Convert("FFIToken::try_from", token, width, FFIToken_try_from(token))
convert_send_options ==
    /\ cin = NoConv
    /\ \E options \in FFISendOptionsInputs, width \in Widths :
           Convert("SendOptions::from", options, width, SendOptions_from(options, width))

NextConv ==
    \/ parse_currency_unit
    \/ convert_mint_quote_state
    \/ convert_mint_quote
    \/ convert_mint_quote_response
    \/ convert_melt_quote
    \/ convert_melted
    \/ convert_token
    \/ convert_send_options

SpecConv == Init /\ [][NextConv]_vars

(***************************************************************************)
(* Properties of the type bridge.                                          *)
(***************************************************************************)
UnitOfWord == {<<<<"s", "a", "t">>, "Sat">>, <<<<"m", "s", "a", "t">>, "Msat">>,
               <<<<"u", "s", "d">>, "Usd">>, <<<<"e", "u", "r">>, "Eur">>}
IsSpelling(text, word) ==
    /\ Len(text) = Len(word)
    /\ \A i \in 1..Len(word) : text[i] = word[i] \/ text[i] = AsciiUpper(word[i])

\* C8: parsing a currency unit from text ignores case and is closed: every
\* spelling of sat, msat, usd, eur in capitals and small letters parses to
\* Sat, Msat, Usd, Eur respectively, and every other text is rejected with
\* InvalidInput (naming the text as given), never mapped to a unit.
C8_UnitParsingCaseInsensitiveClosed ==
    cin.fn = "FFICurrencyUnit::try_from" =>
        /\ \A p \in UnitOfWord :
               IsSpelling(cin.in, p[1]) => cout.ok /\ cout.val = p[2]
        /\ (\A p \in UnitOfWord : ~IsSpelling(cin.in, p[1])) =>
               /\ ~cout.ok
               /\ cout.kind = "InvalidInput"
               /\ cout.msg = <<"Unknown currency unit: ", cin.in>>

\* A mixed-case spelling of msat was parsed.
C8_Witness ==
    /\ cin.fn = "FFICurrencyUnit::try_from"
    /\ cin.in = <<"m", "S", "a", "T">>
    /\ cout.ok
    /\ cout.val = "Msat"

ForeignStates == {"Unpaid", "Paid", "Issued"}
ForeignStateOf(state) == IF state \in ForeignStates THEN state ELSE "Unpaid"

\* C9: the conversion of the engine's MintQuoteState is total: Unpaid, Paid
\* and Issued become the foreign state of the same name, every other state
\* becomes Unpaid; the state field of the mint-quote record and of the
\* mint-quote-state response are converted the same way.
C9_MintQuoteStateTotal ==
    /\ cin.fn = "FFIMintQuoteState::from" =>
           cout \in ForeignStates /\ cout = ForeignStateOf(cin.in)
    /\ cin.fn = "FFIMintQuote::from" =>
           cout.state \in ForeignStates /\ cout.state = ForeignStateOf(cin.in.state)
    /\ cin.fn = "FFIMintQuoteBolt11Response::from" =>
           cout.state \in ForeignStates /\ cout.state = ForeignStateOf(cin.in.state)

\* A mint-quote-state response in a state the foreign enum lacks was
\* converted.
C9_Witness ==
    /\ cin.fn = "FFIMintQuoteBolt11Response::from"
    /\ cin.in.state \notin ForeignStates
    /\ cout.state = "Unpaid"

\* The optional fields that are optional on both sides keep absence and
\* value.
OptionalsKept ==
    /\ cin.fn = "FFIMeltQuote::from" => cout.payment_preimage = cin.in.payment_preimage
    /\ cin.fn = "FFIMelted::from" => cout.preimage = cin.in.preimage
    /\ cin.fn = "FFIMintQuoteBolt11Response::from" => cout.expiry = cin.in.expiry
    /\ (cin.fn = "FFIToken::try_from" /\ cout.ok) => cout.val[1].memo = cin.in.memo
    /\ cin.fn = "SendOptions::from" =>
           /\ IsSome(cout.memo) = IsSome(cin.in.memo)
           /\ IsSome(cin.in.memo) =>
                  /\ Unwrap(cout.memo).memo = Unwrap(cin.in.memo).memo
                  /\ Unwrap(cout.memo).include_memo = Unwrap(cin.in.memo).include_memo
           /\ IsSome(cout.max_proofs) = IsSome(cin.in.max_proofs)

\* C10 as claimed: in every conversion an absent optional field stays absent
\* (never an empty string or zero) and a present one keeps its value, the
\* token's unit and the send options' max-proof-count included.
C10_AbsenceExactEverywhere ==
    /\ OptionalsKept
    /\ (cin.fn = "FFIToken::try_from" /\ cout.ok /\ ~IsSome(cin.in.unit)) =>
           cout.val[1].unit # ""
    /\ cin.fn = "SendOptions::from" => cout.max_proofs = cin.in.max_proofs

\* C10 (amended): melt quote preimage, melted preimage, mint-quote-state
\* expiry, token memo and send-options memo keep absence and value, and the
\* max-proof-count keeps absence; the token's unit, a plain text on the
\* foreign side, is the empty text when the token has no unit and the unit's
\* name otherwise; a present max-proof-count is cast to the build's pointer
\* width: kept when it fits, cut to its low 32 bits when it does not.
C10_AbsenceExactWhereOptional ==
    /\ OptionalsKept
    /\ (cin.fn = "FFIToken::try_from" /\ cout.ok) =>
           IF IsSome(cin.in.unit)
           THEN cout.val[1].unit \in {"sat", "msat", "usd", "eur"}
           ELSE cout.val[1].unit = ""
    /\ (cin.fn = "SendOptions::from" /\ IsSome(cin.in.max_proofs)) =>
           LET p == Unwrap(cin.in.max_proofs)
               q == Unwrap(cout.max_proofs)
           IN /\ q[2] = p[2]
              /\ (cin.width = 64 \/ p[1] = 0) => q = p
              /\ cin.width = 32 => q[1] = 0

\* A token without memo and without unit was converted: no memo, empty unit.
C10_Witness ==
    /\ cin.fn = "FFIToken::try_from"
    /\ cin.in.memo = None
    /\ cin.in.unit = None
    /\ cout.ok
    /\ cout.val[1].memo = None
    /\ cout.val[1].unit = ""

====
